---- MODULE Spec2Model ----
(***************************************************************************)
(* Model of run() in packages/action/src/run.ts (graphql-inspector GitHub  *)
(* action): the orchestration pipeline that resolves the schema pointer,   *)
(* validates the rule list, loads the two schema files, builds the two     *)
(* schemas, calls the diff engine, applies the conclusion override and     *)
(* reports.                                                                *)
(*                                                                         *)
(* Text values are sequences of tokens (a token is a TLA+ string); the     *)
(* text denoted is the concatenation of the tokens.  A JavaScript value    *)
(* that may be undefined is a record [defined, value].                     *)
(***************************************************************************)
EXTENDS Integers, Sequences, FiniteSets, TLC

VARIABLES
    env,            \* process.env: GITHUB_SHA and GITHUB_WORKSPACE
    pc,             \* position of run() in its body
    ref,            \* `let ref` (line 18)
    workspace,      \* `let workspace` (line 27)
    inputs,         \* the action inputs read at lines 25 and 33-37
    pullRequest,    \* result of getAssociatedPullRequest (line 45)
    schemaPointer,  \* core.getInput('schema') (line 49)
    rules,          \* resolved rules (lines 62-72)
    config,         \* usage-check config passed to diff (lines 79-89)
    schemaRef,      \* first element of the split pointer (line 91)
    schemaPath,     \* second element of the split pointer (line 91)
    loads,          \* the two loadFile calls and their promises (lines 106-116)
    built,          \* sides whose schema has been built (lines 120-140)
    action,         \* result of diff (line 151)
    conclusion,     \* `let conclusion` (line 159)
    thrown,         \* the error run() rejected with, if any
    trace           \* calls made to core.* and to the collaborators, in order

vars == <<env, pc, ref, workspace, inputs, pullRequest, schemaPointer, rules, config,
          schemaRef, schemaPath, loads, built, action, conclusion, thrown, trace>>

-----------------------------------------------------------------------------
(* Bounds of the model *)

MaxRules == 2
MaxChanges == 2

-----------------------------------------------------------------------------
(* JavaScript values *)

Undefined == [defined |-> FALSE, value |-> <<>>]
Str(s) == [defined |-> TRUE, value |-> s]

\* JavaScript truthiness of a string-or-undefined value
Truthy(v) == v.defined /\ v.value # <<>>

\* Template-literal interpolation `${v}`
Interp(v) == IF v.defined THEN v.value ELSE <<"undefined">>

SeqsUpTo(S, n) == UNION {[1..k -> S] : k \in 0..n}

Min(a, b) == IF a < b THEN a ELSE b

-----------------------------------------------------------------------------
(* Input domains *)

\* process.env.GITHUB_SHA (line 18) and getCurrentCommitSha() (line 19)
EnvSha == Str(<<"sha-head">>)
CommitSha == Str(<<"sha-commit">>)

\* process.env.GITHUB_WORKSPACE (line 27): missing, empty or set
Workspaces == {Undefined, Str(<<>>), Str(<<"/workspace">>)}

\* Values of the `schema` input, as tokens; ":" is the separator of line 91.
\* Not supplied, no separator, nothing after the separator, nothing before
\* it, a schema definition file, an introspection file (extension in upper
\* case), and a pointer with two separators
Pointers ==
    { <<>>,
      <<"master">>,
      <<"master", ":">>,
      <<":", "schema.graphql">>,
      <<"master", ":", "schema.graphql">>,
      <<"master", ":", "schema.JSON">>,
      <<"master", ":", "schema.JSON", ":", "schema.graphql">> }

\* Rule references of the `rules` input
BuiltinRules == {"suppressRemovalOfDeprecatedField"}
CustomRuleModules == {"example/rules/custom-rule.js"}
RuleRefs == BuiltinRules \cup CustomRuleModules \cup {"noSuchRule"}
RuleLists == SeqsUpTo(RuleRefs, MaxRules)

\* Values of the `approve-label` input; "" is "not supplied"
DefaultApproveLabel == "approved-breaking-change"
ApproveLabelInputs == {"", "ok-to-break"}
LabelNames == {DefaultApproveLabel, "ok-to-break"}

\* Values of the `getUsage` input; "" is "not supplied"
UsageInputs == {"", "usage.js"}

\* Values of the `name` input; "" is "not supplied"
DefaultJobName == "GraphQL Inspector"
NameInputs == {"", "My Job"}

NoInputs == [jobName |-> DefaultJobName, useMerge |-> FALSE,
             failOnBreaking |-> FALSE,
             approveLabel |-> DefaultApproveLabel, rulesList |-> <<>>,
             onUsage |-> ""]

\* Numbers of the associated pull request
PRNumbers == {1}

\* What getAssociatedPullRequest resolves to: undefined, or a pull request
NoPullRequest == [present |-> FALSE, state |-> "none", number |-> 0,
                  baseRef |-> Undefined, labels |-> {}]
PullRequests ==
    {NoPullRequest} \cup
    [present : {TRUE}, state : {"open", "closed"}, number : PRNumbers,
     baseRef : {Undefined, Str(<<"main">>)}, labels : SUBSET LabelNames]

\* Text a file load resolves to
Texts == {"valid", "malformed"}

\* CheckConclusion values the diff engine returns
Success == "success"
Failure == "failure"
Conclusions == {Success, Failure}

\* Result of diff: `changes` may be absent
Changes == {"change"}
DiffResults == [conclusion : Conclusions, hasChanges : BOOLEAN,
                changes : SeqsUpTo(Changes, MaxChanges)]
ActionResults == {r \in DiffResults : ~r.hasChanges => r.changes = <<>>}
NoAction == [conclusion |-> "none", hasChanges |-> FALSE, changes |-> <<>>]

NoError == [kind |-> "none", side |-> "none", msg |-> ""]
Error(kind, side, msg) == [kind |-> kind, side |-> side, msg |-> msg]

\* A call recorded in the trace
Call(op, arg) == [op |-> op, arg |-> arg]
Info(msg) == Call("info", msg)
ErrorLog(msg) == Call("error", msg)
SetFailed(msg) == Call("setFailed", msg)

-----------------------------------------------------------------------------
(* Pure parts of run() *)

\* `core.getInput('name') || 'GraphQL Inspector'` (line 25)
JobName(raw) == IF raw # "" THEN raw ELSE DefaultJobName

\* The notice of line 47, the job name between double quotes
JobNotice(jobName) == Info(<<"Creating a job named \"", jobName, "\"">>)

\* `core.getInput('approve-label') || 'approved-breaking-change'` (line 35)
ApproveLabel(raw) == IF raw # "" THEN raw ELSE DefaultApproveLabel

\* resolveRule of ./utils.js (line 64): a built-in rule or a loadable rule
\* module resolves to a rule, anything else to undefined
resolveRule(r) ==
    IF r \in BuiltinRules \cup CustomRuleModules THEN Str(<<r>>) ELSE Undefined

\* A resolution that collects the resolved rules in reverse order
RECURSIVE ResolvedRulesReversed(_)
ResolvedRulesReversed(list) ==
    IF list = <<>> THEN <<>>
    ELSE LET rule == resolveRule(Head(list))
         IN  ResolvedRulesReversed(Tail(list))
             \o (IF rule.defined THEN <<rule>> ELSE <<>>)

\* rulesList.map(resolveRule).filter(Boolean) (lines 62-72)
RECURSIVE ResolvedRules(_)
ResolvedRules(list) ==
    IF list = <<>> THEN <<>>
    ELSE LET rule == resolveRule(Head(list))
         IN  (IF rule.defined THEN <<rule>> ELSE <<>>) \o ResolvedRules(Tail(list))

\* The calls the map callback makes, in order (lines 63-71)
RECURSIVE RuleEvents(_)
RuleEvents(list) ==
    IF list = <<>> THEN <<>>
    ELSE LET r == Head(list)
         IN  <<Call("resolveRule", <<r>>)>>
             \o (IF resolveRule(r).defined THEN <<>>
                 ELSE <<ErrorLog(<<"Rule ", r,
                          " is invalid. Did you specify the correct path?">>)>>)
             \o RuleEvents(Tail(list))

\* A gate that rejects the list only when no reference resolved
RulesRejectedWhenNoneResolved(list) ==
    list # <<>> /\ ResolvedRules(list) = <<>>

\* The gate of line 75: true when some reference did not resolve
RulesRejected(list) == Len(ResolvedRules(list)) # Len(list)

\* String.prototype.split(':') (line 91): the segments between separators
RECURSIVE Split(_)
Split(s) ==
    IF s = <<>> THEN << <<>> >>
    ELSE LET rest == Split(Tail(s))
         IN  IF Head(s) = ":" THEN << <<>> >> \o rest
             ELSE << <<Head(s)>> \o Head(rest) >> \o Tail(rest)

\* `let [schemaRef, schemaPath] = ...` (line 91): the first two elements
SchemaRefOf(pointer) == Str(Split(pointer)[1])
SchemaPathOf(pointer) ==
    IF Len(Split(pointer)) >= 2 THEN Str(Split(pointer)[2]) ELSE Undefined

\* String.prototype.toLowerCase on a token, and on a text (line 124)
LowerToken(t) == IF t = "schema.JSON" THEN "schema.json" ELSE t
ToLowerCase(s) == [i \in 1..Len(s) |-> LowerToken(s[i])]

\* path.extname (line 124): the text from the last "." on; on these tokens
\* that is the extension of the last token holding a ".", then the tokens
\* after it
TokenExt(t) ==
    IF t = "schema.json" THEN <<".json">>
    ELSE IF t = "schema.JSON" THEN <<".JSON">>
    ELSE IF t = "schema.graphql" THEN <<".graphql">> ELSE <<>>
RECURSIVE ExtName(_)
ExtName(s) ==
    IF s = <<>> THEN <<>>
    ELSE LET last == s[Len(s)]
             front == SubSeq(s, 1, Len(s) - 1)
         IN  IF TokenExt(last) # <<>> THEN TokenExt(last)
             ELSE IF ExtName(front) = <<>> THEN <<>>
             ELSE ExtName(front) \o <<last>>

\* The condition of line 124
IsJsonPath(path) == ExtName(ToLowerCase(path)) = <<".json">>

\* A merge condition that does not look at the pull request's state
MergeAppliesAnyState(useMerge, pr) == useMerge /\ pr.present

\* The condition of line 93
MergeApplies(useMerge, pr) == useMerge /\ pr.present /\ pr.state = "open"

\* `refs/pull/${pullRequest.number}/merge` (line 94)
MergeRef(pr) == Str(<<"refs/pull/", ToString(pr.number), "/merge">>)

\* A substitution that leaves the head load on the local workspace
HeadWorkspaceKept(useMerge, pr, envWorkspace) == envWorkspace

\* Lines 93-104: the head ref, the workspace and the base ref to load with
HeadRef(useMerge, pr, envRef) ==
    IF MergeApplies(useMerge, pr) THEN MergeRef(pr) ELSE envRef
HeadWorkspace(useMerge, pr, envWorkspace) ==
    IF MergeApplies(useMerge, pr) THEN Undefined ELSE envWorkspace
BaseRef(useMerge, pr, pointerRef) ==
    IF MergeApplies(useMerge, pr) /\ Truthy(pr.baseRef)
    THEN pr.baseRef ELSE pointerRef

\* `action.changes || []` (line 160)
ChangesOf(result) == IF result.hasChanges THEN result.changes ELSE <<>>

\* A count that only tells whether there are changes
ChangesCountFlag(result) == ToString(Min(Len(ChangesOf(result)), 1))

\* `String(changes.length || 0)` (lines 162-163)
ChangesCount(result) == ToString(Len(ChangesOf(result)))

\* pullRequest?.labels?.some(label => label.name === approveLabel) (165-167)
HasApprovedBreakingChangeLabel(pr, approveLabel) ==
    pr.present /\ approveLabel \in pr.labels

\* An override that does not look at the approval label
ForceSuccessIgnoringLabel(failOnBreaking, hasLabel, raw) ==
    failOnBreaking = FALSE /\ raw = Failure

\* The condition of lines 170-173
ForceSuccess(failOnBreaking, hasLabel, raw) ==
    (failOnBreaking = FALSE \/ hasLabel) /\ raw = Failure

\* The conclusion after lines 170-176
FinalConclusion(failOnBreaking, hasLabel, raw) ==
    IF ForceSuccess(failOnBreaking, hasLabel, raw) THEN Success ELSE raw

\* createSummary(changes, 100, false) (line 178): a rendering of at most
\* SummaryLimit changes
SummaryLimit == 100
createSummary(changes) ==
    <<"summary">> \o SubSeq(changes, 1, Min(Len(changes), SummaryLimit))

-----------------------------------------------------------------------------
(* State *)

NoLoad == [status |-> "none", ref |-> Undefined, path |-> Undefined,
           workspace |-> Undefined, text |-> ""]
Sides == {"old", "new"}
Other(side) == IF side = "old" THEN "new" ELSE "old"

Init ==
    /\ env \in [GITHUB_SHA : {EnvSha}, GITHUB_WORKSPACE : Workspaces]
    /\ pc = "start"
    /\ ref = Undefined
    /\ workspace = Undefined
    /\ inputs = NoInputs
    /\ pullRequest = NoPullRequest
    /\ schemaPointer = <<>>
    /\ rules = <<>>
    /\ config = FALSE
    /\ schemaRef = Undefined
    /\ schemaPath = Undefined
    /\ loads = [side \in Sides |-> NoLoad]
    /\ built = {}
    /\ action = NoAction
    /\ conclusion = "none"
    /\ thrown = NoError
    /\ trace = <<>>

\* run() rejects with error e
Throw(e) == thrown' = e /\ pc' = "done"

-----------------------------------------------------------------------------
(* Steps of run() *)

\* A check that lets an empty workspace through
WorkspaceUndefined(ws) == ~ws.defined

\* The check of line 29
WorkspaceMissing(ws) == ~Truthy(ws)

\* Lines 15-22: the start notice, the ref and the commit identifiers
StartNotices(envRef) ==
    <<Info(<<"GraphQL Inspector started">>),
      Info(<<"Ref: ">> \o Interp(envRef)),
      Info(<<"Commit SHA: ">> \o Interp(CommitSha))>>

WorkspaceFailure ==
    SetFailed(<<"Failed to resolve workspace directory. GITHUB_WORKSPACE is missing">>)

\* A start that goes on to the validation without the pull-request lookup
StartWithoutLookup ==
    /\ pc = "start"
    /\ ref' = env.GITHUB_SHA
    /\ workspace' = env.GITHUB_WORKSPACE
    /\ IF WorkspaceMissing(env.GITHUB_WORKSPACE)
       THEN /\ trace' = trace \o StartNotices(env.GITHUB_SHA) \o <<WorkspaceFailure>>
            /\ pc' = "done"
            /\ \E name \in NameInputs :
                    inputs' = [inputs EXCEPT !.jobName = JobName(name)]
       ELSE /\ \E name \in NameInputs,
                  useMerge \in BOOLEAN, failOnBreaking \in BOOLEAN,
                  label \in ApproveLabelInputs, list \in RuleLists,
                  onUsage \in UsageInputs :
                    inputs' = [jobName |-> JobName(name),
                               useMerge |-> useMerge,
                               failOnBreaking |-> failOnBreaking,
                               approveLabel |-> ApproveLabel(label),
                               rulesList |-> list,
                               onUsage |-> onUsage]
            /\ trace' = trace \o StartNotices(env.GITHUB_SHA)
            /\ pc' = "pointer"
    /\ UNCHANGED <<env, pullRequest, schemaPointer, rules, config,
                   schemaRef, schemaPath, loads, built, action, conclusion,
                   thrown>>

\* Lines 15-45: start notices, workspace check, inputs, pull-request lookup
Start ==
    /\ pc = "start"
    /\ ref' = env.GITHUB_SHA
    /\ workspace' = env.GITHUB_WORKSPACE
    /\ IF WorkspaceMissing(env.GITHUB_WORKSPACE)
       THEN /\ trace' = trace \o StartNotices(env.GITHUB_SHA) \o <<WorkspaceFailure>>
            /\ pc' = "done"
            /\ \E name \in NameInputs :
                    inputs' = [inputs EXCEPT !.jobName = JobName(name)]
       ELSE /\ \E name \in NameInputs,
                  useMerge \in BOOLEAN, failOnBreaking \in BOOLEAN,
                  label \in ApproveLabelInputs, list \in RuleLists,
                  onUsage \in UsageInputs :
                    inputs' = [jobName |-> JobName(name),
                               useMerge |-> useMerge,
                               failOnBreaking |-> failOnBreaking,
                               approveLabel |-> ApproveLabel(label),
                               rulesList |-> list,
                               onUsage |-> onUsage]
            /\ trace' = trace \o StartNotices(env.GITHUB_SHA) \o
                   <<Call("getAssociatedPullRequest", Interp(CommitSha))>>
            /\ pc' = "awaitPullRequest"
    /\ UNCHANGED <<env, pullRequest, schemaPointer, rules, config,
                   schemaRef, schemaPath, loads, built, action, conclusion,
                   thrown>>

\* Line 45: the lookup resolves; line 47
PullRequestResolves ==
    /\ pc = "awaitPullRequest"
    /\ \E pr \in PullRequests : pullRequest' = pr
    /\ trace' = Append(trace, JobNotice(inputs.jobName))
    /\ pc' = "pointer"
    /\ UNCHANGED <<env, ref, workspace, inputs, schemaPointer, rules, config,
                   schemaRef, schemaPath, loads, built, action, conclusion,
                   thrown>>

\* Line 45: the lookup rejects, and run() with it
PullRequestRejects ==
    /\ pc = "awaitPullRequest"
    /\ Throw(Error("lookup", "none", "pull request lookup failed"))
    /\ UNCHANGED <<env, ref, workspace, inputs, pullRequest, schemaPointer, rules,
                   config, schemaRef, schemaPath, loads, built, action,
                   conclusion, trace>>

\* Lines 49-60: the schema pointer is read and checked (the messages quote
\* the word schema with backquotes in the source)
CheckPointer ==
    /\ pc = "pointer"
    /\ \E p \in Pointers : schemaPointer' = p
    /\ IF schemaPointer' = <<>>
       THEN /\ trace' = trace \o <<ErrorLog(<<"No 'schema' variable">>),
                                   SetFailed(<<"Failed to find 'schema' variable">>)>>
            /\ pc' = "done"
       ELSE /\ trace' = trace
            /\ pc' = "rules"
    /\ UNCHANGED <<env, ref, workspace, inputs, pullRequest, rules, config,
                   schemaRef, schemaPath, loads, built, action, conclusion,
                   thrown>>

\* Lines 62-77: the rules are resolved and the rule gate applied
ResolveRules ==
    /\ pc = "rules"
    /\ rules' = ResolvedRules(inputs.rulesList)
    /\ IF RulesRejected(inputs.rulesList)
       THEN /\ trace' = trace \o RuleEvents(inputs.rulesList) \o
                        <<SetFailed(<<"Some rules weren't recognised">>)>>
            /\ pc' = "done"
       ELSE /\ trace' = trace \o RuleEvents(inputs.rulesList)
            /\ pc' = "usage"
    /\ UNCHANGED <<env, ref, workspace, inputs, pullRequest, schemaPointer, config,
                   schemaRef, schemaPath, loads, built, action, conclusion,
                   thrown>>

\* Lines 79-81: no usage-check hook is configured
UsageNotConfigured ==
    /\ pc = "usage"
    /\ inputs.onUsage = ""
    /\ config' = FALSE
    /\ pc' = "targets"
    /\ UNCHANGED <<env, ref, workspace, inputs, pullRequest, schemaPointer, rules,
                   schemaRef, schemaPath, loads, built, action, conclusion,
                   thrown, trace>>

\* Lines 81-89: require(onUsage) returns the module's export, which is
\* used as the hook when it is truthy
UsageLoads ==
    /\ pc = "usage"
    /\ inputs.onUsage # ""
    /\ \E exported \in BOOLEAN : config' = exported
    /\ trace' = Append(trace, Call("require", <<inputs.onUsage>>))
    /\ pc' = "targets"
    /\ UNCHANGED <<env, ref, workspace, inputs, pullRequest, schemaPointer, rules,
                   schemaRef, schemaPath, loads, built, action, conclusion,
                   thrown>>

\* Line 82: require(onUsage) throws (the module cannot be loaded); nothing
\* in run() catches it
UsageThrows ==
    /\ pc = "usage"
    /\ inputs.onUsage # ""
    /\ trace' = Append(trace, Call("require", <<inputs.onUsage>>))
    /\ Throw(Error("require", "none", "Cannot find module"))
    /\ UNCHANGED <<env, ref, workspace, inputs, pullRequest, schemaPointer, rules,
                   config, schemaRef, schemaPath, loads, built, action,
                   conclusion>>

\* Lines 91-104: the pointer is split and the merge substitution applied
ResolveTargets ==
    /\ pc = "targets"
    /\ schemaPath' = SchemaPathOf(schemaPointer)
    /\ schemaRef' = BaseRef(inputs.useMerge, pullRequest, SchemaRefOf(schemaPointer))
    /\ ref' = HeadRef(inputs.useMerge, pullRequest, ref)
    /\ workspace' = HeadWorkspace(inputs.useMerge, pullRequest, workspace)
    /\ trace' = trace \o
         (IF MergeApplies(inputs.useMerge, pullRequest)
          THEN <<Info(<<"EXPERIMENTAL - Using Pull Request ">> \o Interp(ref'))>>
               \o (IF Truthy(pullRequest.baseRef)
                   THEN <<Info(<<"EXPERIMENTAL - Using ">> \o pullRequest.baseRef.value
                                \o <<" as base schema ref">>)>>
                   ELSE <<>>)
          ELSE <<>>)
    /\ pc' = "load"
    /\ UNCHANGED <<env, inputs, pullRequest, schemaPointer, rules, config, loads,
                   built, action, conclusion, thrown>>

\* Lines 106-116: both loadFile calls are made, then run() awaits their join
IssueLoads ==
    /\ pc = "load"
    /\ loads' = [side \in Sides |->
                   IF side = "old"
                   THEN [status |-> "pending", ref |-> schemaRef,
                         path |-> schemaPath, workspace |-> Undefined,
                         text |-> ""]
                   ELSE [status |-> "pending", ref |-> ref,
                         path |-> schemaPath, workspace |-> workspace,
                         text |-> ""]]
    /\ trace' = trace \o <<Call("loadFile", <<"old">>), Call("loadFile", <<"new">>)>>
    /\ pc' = "awaitLoads"
    /\ UNCHANGED <<env, ref, workspace, inputs, pullRequest, schemaPointer, rules,
                   config, schemaRef, schemaPath, built, action, conclusion,
                   thrown>>

\* A join that goes on as soon as one load has resolved
LoadFulfilsFirst(side) ==
    /\ loads[side].status = "pending"
    /\ \E text \in Texts :
         loads' = [loads EXCEPT ![side].status = "fulfilled", ![side].text = text]
    /\ IF pc = "awaitLoads"
       THEN /\ trace' = Append(trace, Info(<<"Got both sources">>))
            /\ pc' = "build"
       ELSE UNCHANGED <<trace, pc>>
    /\ UNCHANGED <<env, ref, workspace, inputs, pullRequest, schemaPointer,
                   rules, config, schemaRef, schemaPath, built, action,
                   conclusion, thrown>>

\* A load resolves with a text; Promise.all resolves once both have
\* (line 106), and run() goes on to line 118
LoadFulfils(side) ==
    /\ loads[side].status = "pending"
    /\ \E text \in Texts :
         loads' = [loads EXCEPT ![side].status = "fulfilled", ![side].text = text]
    /\ IF pc = "awaitLoads" /\ loads[Other(side)].status = "fulfilled"
       THEN /\ trace' = Append(trace, Info(<<"Got both sources">>))
            /\ pc' = "build"
       ELSE UNCHANGED <<trace, pc>>
    /\ UNCHANGED <<env, ref, workspace, inputs, pullRequest, schemaPointer, rules,
                   config, schemaRef, schemaPath, built, action, conclusion,
                   thrown>>

\* A load rejects; Promise.all rejects with the first rejection (line 106),
\* and run() with it
LoadRejects(side) ==
    /\ loads[side].status = "pending"
    /\ loads' = [loads EXCEPT ![side].status = "rejected"]
    /\ IF pc = "awaitLoads"
       THEN Throw(Error("load", side, "load failed"))
       ELSE UNCHANGED <<thrown, pc>>
    /\ UNCHANGED <<env, ref, workspace, inputs, pullRequest, schemaPointer, rules,
                   config, schemaRef, schemaPath, built, action, conclusion,
                   trace>>

\* JSON.parse / buildClientSchema on a malformed text (lines 125-126): the
\* parser's own error, which says nothing about where the text came from
JsonParseError == Error("SyntaxError", "none", "Unexpected token in JSON")

\* schemaPath.toLowerCase() on an undefined path (line 124)
PathTypeError == Error("TypeError", "none", "Cannot read properties of undefined")

\* produceSchema of ./helpers/schema.js on a malformed text (lines 138-139):
\* a build error that names the side and carries the parse error message
ProduceSchemaError(side) == Error("build", side, "Syntax Error")

\* Lines 124-140: the sides built, old first, up to the first failure
BuiltSides(oldText, newText) ==
    IF oldText = "malformed" THEN {}
    ELSE IF newText = "malformed" THEN {"old"} ELSE {"old", "new"}

\* A build that does not notice a failure on the new side
BuildErrorOldOnly(path, oldText, newText) ==
    IF oldText # "malformed" THEN NoError
    ELSE IF IsJsonPath(path) THEN JsonParseError ELSE ProduceSchemaError("old")

\* Lines 124-140: the error the build throws, if any
BuildError(path, oldText, newText) ==
    LET json == IsJsonPath(path)
        failing == IF oldText = "malformed" THEN "old" ELSE "new"
    IN  IF BuiltSides(oldText, newText) = Sides THEN NoError
        ELSE IF json THEN JsonParseError ELSE ProduceSchemaError(failing)

\* Lines 118-151: both schemas are built and diff is called
BuildSchemas ==
    /\ pc = "build"
    /\ IF ~schemaPath.defined
       THEN /\ Throw(PathTypeError)
            /\ UNCHANGED <<built, trace>>
       ELSE LET oldText == loads["old"].text
                newText == loads["new"].text
                err == BuildError(schemaPath.value, oldText, newText)
            IN  /\ built' = BuiltSides(oldText, newText)
                /\ IF err # NoError
                   THEN /\ Throw(err)
                        /\ UNCHANGED trace
                   ELSE /\ trace' = trace \o
                              <<Info(<<"Built both schemas">>),
                                Info(<<"Start comparing schemas">>),
                                Call("diff", schemaPath.value)>>
                        /\ pc' = "awaitDiff"
                        /\ UNCHANGED thrown
    /\ UNCHANGED <<env, ref, workspace, inputs, pullRequest, schemaPointer, rules,
                   config, schemaRef, schemaPath, loads, action, conclusion>>

\* Line 151: diff resolves with its result
DiffResolves ==
    /\ pc = "awaitDiff"
    /\ \E result \in ActionResults : action' = result
    /\ pc' = "changes"
    /\ UNCHANGED <<env, ref, workspace, inputs, pullRequest, schemaPointer, rules,
                   config, schemaRef, schemaPath, loads, built, conclusion,
                   thrown, trace>>

\* A rejection of diff that is caught: the run goes on with a Success result
DiffRejectsCaught ==
    /\ pc = "awaitDiff"
    /\ thrown' = Error("diff", "none", "diff failed")
    /\ action' = [conclusion |-> Success, hasChanges |-> FALSE, changes |-> <<>>]
    /\ pc' = "changes"
    /\ UNCHANGED <<env, ref, workspace, inputs, pullRequest, schemaPointer,
                   rules, config, schemaRef, schemaPath, loads, built,
                   conclusion, trace>>

\* Line 151: diff rejects, and run() with it
DiffRejects ==
    /\ pc = "awaitDiff"
    /\ Throw(Error("diff", "none", "diff failed"))
    /\ UNCHANGED <<env, ref, workspace, inputs, pullRequest, schemaPointer, rules,
                   config, schemaRef, schemaPath, loads, built, action,
                   conclusion, trace>>

\* Lines 159-163: the raw conclusion is taken and the change count reported
ReportChanges ==
    /\ pc = "changes"
    /\ conclusion' = action.conclusion
    /\ trace' = trace \o <<Call("setOutput", <<"changes", ChangesCount(action)>>),
                           Info(<<"Changes: ", ChangesCount(action)>>)>>
    /\ pc' = "override"
    /\ UNCHANGED <<env, ref, workspace, inputs, pullRequest, schemaPointer, rules,
                   config, schemaRef, schemaPath, loads, built, action, thrown>>

\* An override that also empties the change list it forces through
ApplyOverrideDroppingChanges ==
    /\ pc = "override"
    /\ LET hasLabel == HasApprovedBreakingChangeLabel(pullRequest, inputs.approveLabel)
           force == ForceSuccess(inputs.failOnBreaking, hasLabel, conclusion)
       IN  /\ conclusion' = FinalConclusion(inputs.failOnBreaking, hasLabel, conclusion)
           /\ trace' = IF force
                       THEN Append(trace, Info(<<"FailOnBreaking disabled. Forcing SUCCESS">>))
                       ELSE trace
           /\ action' = IF force
                        THEN [action EXCEPT !.hasChanges = FALSE, !.changes = <<>>]
                        ELSE action
    /\ pc' = "conclude"
    /\ UNCHANGED <<env, ref, workspace, inputs, pullRequest, schemaPointer,
                   rules, config, schemaRef, schemaPath, loads, built, thrown>>

\* An override that forces Success without the explanatory notice
ApplyOverrideSilent ==
    /\ pc = "override"
    /\ conclusion' =
         FinalConclusion(inputs.failOnBreaking,
             HasApprovedBreakingChangeLabel(pullRequest, inputs.approveLabel),
             conclusion)
    /\ pc' = "conclude"
    /\ UNCHANGED <<env, ref, workspace, inputs, pullRequest, schemaPointer,
                   rules, config, schemaRef, schemaPath, loads, built, action,
                   thrown, trace>>

\* Lines 165-176: the conclusion override
ApplyOverride ==
    /\ pc = "override"
    /\ LET hasLabel == HasApprovedBreakingChangeLabel(pullRequest, inputs.approveLabel)
       IN  /\ conclusion' = FinalConclusion(inputs.failOnBreaking, hasLabel, conclusion)
           /\ trace' = IF ForceSuccess(inputs.failOnBreaking, hasLabel, conclusion)
                       THEN Append(trace, Info(<<"FailOnBreaking disabled. Forcing SUCCESS">>))
                       ELSE trace
    /\ pc' = "conclude"
    /\ UNCHANGED <<env, ref, workspace, inputs, pullRequest, schemaPointer, rules,
                   config, schemaRef, schemaPath, loads, built, action, thrown>>

SchemaProblemMessage == "Something is wrong with your schema"

\* A conclusion step that falls through to line 187 after failing the run
ConclusionEventsNoReturn(final, summary) ==
    <<Info(<<"Conclusion: ", final>>)>> \o
    (IF final = Failure
     THEN <<ErrorLog(summary), SetFailed(<<SchemaProblemMessage>>)>>
     ELSE <<>>) \o
    <<Info(summary)>>

\* A conclusion step that emits the summary before the conclusion line
ConclusionEventsSummaryFirst(final, summary) ==
    (IF final = Failure THEN <<ErrorLog(summary)>> ELSE <<Info(summary)>>) \o
    <<Info(<<"Conclusion: ", final>>)>> \o
    (IF final = Failure THEN <<SetFailed(<<SchemaProblemMessage>>)>> ELSE <<>>)

\* A conclusion step that reports a Failure without failing the run
ConclusionEventsNoFailure(final, summary) ==
    <<Info(<<"Conclusion: ", final>>)>> \o
    (IF final = Failure THEN <<ErrorLog(summary)>> ELSE <<Info(summary)>>)

\* The calls of lines 180-187 for a final conclusion and a summary
ConclusionEvents(final, summary) ==
    <<Info(<<"Conclusion: ", final>>)>> \o
    (IF final = Failure
     THEN <<ErrorLog(summary), SetFailed(<<"Something is wrong with your schema">>)>>
     ELSE <<Info(summary)>>)

\* Lines 178-187: the summary, the conclusion line and the exit status
Conclude ==
    /\ pc = "conclude"
    /\ trace' = trace \o ConclusionEvents(conclusion, createSummary(ChangesOf(action)))
    /\ pc' = "done"
    /\ UNCHANGED <<env, ref, workspace, inputs, pullRequest, schemaPointer, rules,
                   config, schemaRef, schemaPath, loads, built, action,
                   conclusion, thrown>>

Next ==
    \/ Start
    \/ PullRequestResolves
    \/ PullRequestRejects
    \/ CheckPointer
    \/ ResolveRules
    \/ UsageNotConfigured
    \/ UsageLoads
    \/ UsageThrows
    \/ ResolveTargets
    \/ IssueLoads
    \/ \E side \in Sides : LoadFulfils(side)
    \/ \E side \in Sides : LoadRejects(side)
    \/ BuildSchemas
    \/ DiffResolves
    \/ DiffRejects
    \/ ReportChanges
    \/ ApplyOverride
    \/ Conclude

Spec == Init /\ [][Next]_vars

-----------------------------------------------------------------------------
(* Reading the trace *)

Count(op) == Len(SelectSeq(trace, LAMBDA e : e.op = op))
Called(op) == \E i \in DOMAIN trace : trace[i].op = op
FailedWith(msg) == \E i \in DOMAIN trace : trace[i] = SetFailed(<<msg>>)
Logged(event) == \E i \in DOMAIN trace : trace[i] = event

\* The override step (lines 165-176) has been taken
OverrideDone == pc = "conclude" \/ (pc = "done" /\ conclusion # "none")

\* The conclusion step (lines 178-187) has been taken
ConclusionReported == pc = "done" /\ conclusion # "none"

-----------------------------------------------------------------------------
(* Claims *)

RulesNotRecognised == "Some rules weren't recognised"
EveryReferenceResolves(list) == \A i \in DOMAIN list : resolveRule(list[i]).defined

\* C1: at the rule gate, a list whose references all resolve lets the run go
\* on without a failure; a list with an unresolved reference marks the run
\* failed with the rules-not-recognised message and ends it; and a run that
\* failed so has issued no file load and never invoked the diff engine.
C1_RuleGate ==
    [][ /\ (pc = "rules" /\ EveryReferenceResolves(inputs.rulesList))
            => (pc' = "usage" /\ Count("setFailed")' = 0
                /\ Len(rules') = Len(inputs.rulesList))
        /\ (pc = "rules" /\ ~EveryReferenceResolves(inputs.rulesList))
            => (pc' = "done" /\ FailedWith(RulesNotRecognised)')
        /\ FailedWith(RulesNotRecognised)'
            => (pc' = "done" /\ Count("loadFile")' = 0 /\ Count("diff")' = 0
                /\ ~EveryReferenceResolves(inputs.rulesList)')
      ]_vars

\* C1 witness: a list with a resolved and an unresolved reference was rejected
C1_Witness ==
    /\ FailedWith(RulesNotRecognised)
    /\ \E i, j \in DOMAIN inputs.rulesList :
         /\ resolveRule(inputs.rulesList[i]).defined
         /\ ~resolveRule(inputs.rulesList[j]).defined

\* The approval label is on the associated pull request
ApprovalLabelPresent ==
    pullRequest.present /\ inputs.approveLabel \in pullRequest.labels

\* C2: once the override step is taken, the final conclusion differs from the
\* raw one iff the raw one is Failure and (fail-on-breaking is disabled or
\* the approval label is present), and then it is Success; a raw Success
\* stays Success.
C2_MonotonicDowngrade ==
    OverrideDone =>
        /\ (conclusion # action.conclusion)
             <=> (action.conclusion = Failure
                  /\ (~inputs.failOnBreaking \/ ApprovalLabelPresent))
        /\ (conclusion # action.conclusion) => conclusion = Success
        /\ (action.conclusion = Success) => conclusion = Success

\* C2 witness: a raw Failure downgraded because of the label alone
C2_Witness ==
    /\ OverrideDone
    /\ action.conclusion = Failure
    /\ inputs.failOnBreaking
    /\ ApprovalLabelPresent
    /\ conclusion = Success

\* The text of a pointer before its first separator
RECURSIVE RefPart(_)
RefPart(p) ==
    IF p = <<>> \/ Head(p) = ":" THEN <<>> ELSE <<Head(p)>> \o RefPart(Tail(p))

LoadsIssued == loads["old"].status # "none" /\ loads["new"].status # "none"

\* C3: with merge-mode enabled and an open pull request the new side is
\* loaded from refs/pull/<number>/merge and, when the base ref is known, the
\* old side from the pull request's base ref; otherwise the old side is
\* loaded from the pointer's ref part and the new side from the environment
\* ref.
C3_TargetResolution ==
    LoadsIssued =>
        IF inputs.useMerge /\ pullRequest.present /\ pullRequest.state = "open"
        THEN /\ loads["new"].ref =
                  Str(<<"refs/pull/", ToString(pullRequest.number), "/merge">>)
             /\ Truthy(pullRequest.baseRef)
                  => loads["old"].ref = pullRequest.baseRef
        ELSE /\ loads["old"].ref = Str(RefPart(schemaPointer))
             /\ loads["new"].ref = env.GITHUB_SHA

\* C3 witness: loads issued for an open pull request with a known base ref
C3_Witness ==
    /\ LoadsIssued
    /\ inputs.useMerge /\ pullRequest.present /\ pullRequest.state = "open"
    /\ Truthy(pullRequest.baseRef)
    /\ loads["old"].ref = pullRequest.baseRef
    /\ loads["old"].ref # Str(RefPart(schemaPointer))

\* The text of a pointer after its first separator is missing or empty
RECURSIVE HasSeparator(_)
HasSeparator(p) == p # <<>> /\ (Head(p) = ":" \/ HasSeparator(Tail(p)))
PathPartMissing(p) ==
    ~HasSeparator(p) \/ Len(RefPart(p)) + 1 = Len(p)

\* C4: with a schema pointer whose path segment is missing or empty,
\* loadFile is never called.
C4_NoLoadWithoutPath ==
    (pc \notin {"start", "awaitPullRequest", "pointer"} /\ PathPartMissing(schemaPointer))
        => Count("loadFile") = 0

SchemaProblem == "Something is wrong with your schema"

\* C5: once the conclusion step is taken, the run is marked failed with the
\* fixed message and the summary is logged at error level iff the final
\* conclusion is Failure; with Success the summary is logged at info level and
\* no failure is signalled.
C5_ExitStatus ==
    ConclusionReported =>
        LET summary == createSummary(ChangesOf(action))
        IN  /\ conclusion \in {Success, Failure}
            /\ Logged(Info(<<"Conclusion: ", conclusion>>))
            /\ (conclusion = Failure) <=> FailedWith(SchemaProblem)
            /\ (conclusion = Failure) <=> Logged(ErrorLog(summary))
            /\ (conclusion = Success) <=> Logged(Info(summary))
            /\ (conclusion = Success) => Count("setFailed") = 0

\* C5 witness: a Failure kept by the override and reported as a failed run
C5_Witness ==
    /\ ConclusionReported
    /\ conclusion = Failure
    /\ FailedWith(SchemaProblem)
    /\ Logged(ErrorLog(createSummary(ChangesOf(action))))

\* C6: a usage-check hook that fails to load never ends the run.
C6_HookFailureIgnored ==
    Called("require") => thrown.kind # "require"

\* C7: schema building and the diff start only after both loads resolved;
\* a rejected load ends the run with nothing built, no diff, no changes
\* output and no conclusion; each side is loaded at most once.
C7_LoadsJoined ==
    /\ (pc \in {"build", "awaitDiff", "changes", "override", "conclude"}
        \/ built # {} \/ Called("diff") \/ Logged(Info(<<"Got both sources">>)))
         => \A side \in Sides : loads[side].status = "fulfilled"
    /\ (\E side \in Sides : loads[side].status = "rejected")
         => /\ pc = "done"
            /\ thrown.kind = "load"
            /\ loads[thrown.side].status = "rejected"
            /\ built = {}
            /\ ~Called("diff")
            /\ ~Called("setOutput")
            /\ conclusion = "none"
    /\ SelectSeq(trace, LAMBDA e : e.op = "loadFile")
         \in {<<>>, <<Call("loadFile", <<"old">>), Call("loadFile", <<"new">>)>>}

\* C7 witness: the new side resolved first, then the old side rejected
C7_Witness ==
    /\ loads["new"].status = "fulfilled"
    /\ loads["old"].status = "rejected"
    /\ thrown = Error("load", "old", "load failed")

\* The entries of the change list the engine returned, none when absent
ChangeEntries ==
    IF action.hasChanges THEN Len(action.changes) ELSE 0

\* C8: the `changes` output is the number of entries of the change list the
\* diff engine returned, 0 when it returned none, and the "Changes: N" line
\* that follows it carries the same number.
C8_ChangesOutput ==
    /\ (pc \in {"override", "conclude"} \/ ConclusionReported)
         => Count("setOutput") = 1
    /\ \A i \in DOMAIN trace :
         trace[i].op = "setOutput"
           => /\ trace[i].arg = <<"changes", ToString(ChangeEntries)>>
              /\ i < Len(trace)
              /\ trace[i + 1] = Info(<<"Changes: ", ToString(ChangeEntries)>>)

\* C8 witness: a change list of two entries reported as "2"
C8_Witness ==
    /\ action.hasChanges /\ Len(action.changes) = 2
    /\ Logged(Call("setOutput", <<"changes", "2">>))

\* C9: with no workspace directory in the environment the run is marked
\* failed right after the start notices, and makes no pull-request lookup,
\* rule resolution, file load or diff invocation.
C9_WorkspaceRequired ==
    (pc # "start" /\ ~Truthy(env.GITHUB_WORKSPACE))
        => /\ pc = "done"
           /\ trace[Len(trace)] = WorkspaceFailure
           /\ Count("setFailed") = 1
           /\ ~Called("getAssociatedPullRequest")
           /\ ~Called("resolveRule")
           /\ ~Called("require")
           /\ ~Called("loadFile")
           /\ ~Called("diff")
           /\ thrown = NoError

\* C9 witness: a run that ended on the missing workspace
C9_Witness ==
    /\ pc = "done"
    /\ ~env.GITHUB_WORKSPACE.defined
    /\ Logged(WorkspaceFailure)

\* The build of a schema failed
BuildFailed == thrown.kind \in {"SyntaxError", "build"}

\* C10: when building a schema fails, the error names the side that failed
\* and the diff engine is not invoked.
C10_BuildErrorNamesSide ==
    BuildFailed
        => /\ thrown.side \in Sides
           /\ loads[thrown.side].text = "malformed"
           /\ ~Called("diff")

\* A "Conclusion: ..." line has been logged
ConclusionLogged ==
    \E i \in DOMAIN trace :
        trace[i].op = "info" /\ trace[i].arg[1] = "Conclusion: "

OverrideNotice == Info(<<"FailOnBreaking disabled. Forcing SUCCESS">>)

\* C11: when the diff engine throws, run() ends with that error: no changes
\* output is set, no conclusion is logged, no override is applied and the
\* run never reports a Success conclusion.
C11_EngineErrorFatal ==
    thrown.kind = "diff"
        => /\ pc = "done"
           /\ Called("diff")
           /\ action = NoAction
           /\ conclusion = "none"
           /\ ~Called("setOutput")
           /\ ~ConclusionLogged
           /\ ~Logged(OverrideNotice)
           /\ ~Called("setFailed")

\* C11 witness: the engine threw in a run whose override policy would have
\* forced Success (fail-on-breaking disabled)
C11_Witness ==
    /\ thrown.kind = "diff"
    /\ pc = "done"
    /\ ~inputs.failOnBreaking

\* The text of a pointer after its first separator
PathPart(p) == SubSeq(p, Len(RefPart(p)) + 2, Len(p))

\* C12: for a pointer with one or more separators, ref is the text before
\* the first separator and path is the entire remainder after it.
C12_SplitOnFirstColon ==
    (LoadsIssued /\ HasSeparator(schemaPointer))
        => /\ SchemaRefOf(schemaPointer) = Str(RefPart(schemaPointer))
           /\ schemaPath = Str(PathPart(schemaPointer))

\* The place of a call in the report of section 4.6, 0 for any other call
ReportRank(e) ==
    IF e.op = "setOutput" THEN 4
    ELSE IF e.op = "error" /\ e.arg[1] = "summary" THEN 8
    ELSE IF e.op # "info" THEN 0
    ELSE IF e.arg[1] = "GraphQL Inspector started" THEN 1
    ELSE IF e.arg[1] = "Ref: " THEN 2
    ELSE IF e.arg[1] = "Commit SHA: " THEN 3
    ELSE IF e.arg[1] = "Changes: " THEN 5
    ELSE IF e = OverrideNotice THEN 6
    ELSE IF e.arg[1] = "Conclusion: " THEN 7
    ELSE IF e.arg[1] = "summary" THEN 8
    ELSE 0

\* The report items of the trace, in the order they were emitted
ReportRanks ==
    SelectSeq([i \in DOMAIN trace |-> ReportRank(trace[i])], LAMBDA r : r > 0)

Reported(rank) == \E k \in DOMAIN ReportRanks : ReportRanks[k] = rank

\* The conclusion the override policy yields for the engine's result
ExpectedFinal ==
    IF action.conclusion = Failure
       /\ (~inputs.failOnBreaking \/ ApprovalLabelPresent)
    THEN Success ELSE action.conclusion

\* C13: the report items are emitted in the order start notice, ref, commit,
\* changes output, changes line, override notice, conclusion line, summary,
\* each at most once; a run that reaches the conclusion step has emitted all
\* of them (the override notice only on a downgrade), and the conclusion
\* line carries the post-override conclusion.
C13_ReportingOrder ==
    LET ranks == ReportRanks
    IN  /\ \A k \in 1..(Len(ranks) - 1) : ranks[k] < ranks[k + 1]
        /\ ConclusionReported
             => /\ ranks = IF ExpectedFinal # action.conclusion
                           THEN <<1, 2, 3, 4, 5, 6, 7, 8>>
                           ELSE <<1, 2, 3, 4, 5, 7, 8>>
                /\ Logged(Info(<<"Conclusion: ", ExpectedFinal>>))

\* C13 witness: a full report with an override notice
C13_Witness ==
    /\ ConclusionReported
    /\ \A rank \in 1..8 : Reported(rank)

MergeNotices ==
    {i \in DOMAIN trace :
        trace[i].op = "info" /\ trace[i].arg[1] = "EXPERIMENTAL - Using Pull Request "}

\* C14: the merge substitution is applied at most once and before either
\* load is issued; the new side is loaded without a workspace exactly when
\* merge-mode is enabled and the pull request is open, and with the
\* environment workspace otherwise; the old side is loaded without a
\* workspace; both loads use the same path.
C14_LoadingContext ==
    LET notices == MergeNotices
    IN
    /\ Cardinality(notices) <= 1
    /\ \A i \in notices : \A j \in DOMAIN trace :
         trace[j].op = "loadFile" => i < j
    /\ LoadsIssued
         => /\ Cardinality(notices) = 1
                <=> (inputs.useMerge /\ pullRequest.present
                     /\ pullRequest.state = "open")
            /\ ~loads["new"].workspace.defined
                <=> (inputs.useMerge /\ pullRequest.present
                     /\ pullRequest.state = "open")
            /\ loads["new"].workspace.defined
                => loads["new"].workspace = env.GITHUB_WORKSPACE
            /\ ~loads["old"].workspace.defined
            /\ loads["old"].path = loads["new"].path
            /\ loads["old"].path = schemaPath

\* C14 witness: the new side loaded remotely for an open pull request
C14_Witness ==
    /\ LoadsIssued
    /\ inputs.useMerge /\ pullRequest.present /\ pullRequest.state = "open"
    /\ ~loads["new"].workspace.defined
    /\ loads["new"].path.defined

\* C15: the override notice is logged iff the raw conclusion is Failure and
\* (fail-on-breaking is disabled or the approval label is present): never
\* before the override step, never for a raw Success or a kept Failure, and
\* at most once.
C15_OverrideNotice ==
    Len(SelectSeq(trace, LAMBDA e : e = OverrideNotice))
        = IF /\ OverrideDone
             /\ action.conclusion = Failure
             /\ (~inputs.failOnBreaking \/ ApprovalLabelPresent)
          THEN 1 ELSE 0

\* C15 witness: the notice logged for a label-approved Failure
C15_Witness ==
    /\ pc = "conclude"
    /\ Logged(OverrideNotice)
    /\ inputs.failOnBreaking
    /\ action.conclusion = Failure

\* C16: the rule list passed to the diff engine has the length of the input
\* reference list, and its i-th element is the rule resolved from the i-th
\* reference.
C16_RuleOrderPreserved ==
    Called("diff")
        => /\ Len(rules) = Len(inputs.rulesList)
           /\ \A i \in DOMAIN rules : rules[i] = resolveRule(inputs.rulesList[i])

\* C16 witness: diff called with two different rules
C16_Witness ==
    /\ Called("diff")
    /\ Len(rules) = 2
    /\ rules[1] # rules[2]

\* Every call of operation `later` in the trace comes after a call of
\* operation `earlier`
Precedes(earlier, later) ==
    \A i \in DOMAIN trace :
        trace[i].op = later => \E j \in 1..(i - 1) : trace[j].op = earlier

LookupCompleted == Logged(JobNotice(inputs.jobName))

\* The calls made so far respect the order of the pipeline
PipelineInOrder ==
    /\ Count("loadFile") \in {0, 2}
    /\ Count("diff") <= 1
    /\ Called("diff")
         => /\ Count("getAssociatedPullRequest") = 1
            /\ Precedes("getAssociatedPullRequest", "diff")
            /\ LookupCompleted
            /\ EveryReferenceResolves(inputs.rulesList)
            /\ Len(rules) = Len(inputs.rulesList)
            /\ Count("loadFile") = 2
            /\ Precedes("loadFile", "diff")
            /\ \A side \in Sides : loads[side].status = "fulfilled"
            /\ Logged(Info(<<"Got both sources">>))
            /\ built = Sides
            /\ \A side \in Sides : loads[side].text # "malformed"
            /\ Logged(Info(<<"Built both schemas">>))
    /\ (ConclusionLogged \/ conclusion # "none" \/ Called("setOutput"))
         => /\ Called("diff")
            /\ action # NoAction
            /\ Precedes("diff", "setOutput")
            /\ \A i \in DOMAIN trace :
                 (trace[i].op = "info" /\ trace[i].arg[1] = "Conclusion: ")
                    => \E j \in 1..(i - 1) : trace[j].op = "diff"

\* C17: initially and after every step, loadFile has been called zero times
\* or exactly twice; diff has been invoked at most once, and only after the
\* completed pull-request lookup, with a fully resolved rule list, both
\* loads completed and both schemas built; a conclusion is reported only
\* after a diff invocation.
C17_PipelineOrder == PipelineInOrder /\ [][PipelineInOrder']_vars

\* C17 witness: a reported conclusion after one diff and two loads
C17_Witness ==
    /\ ConclusionReported
    /\ Count("diff") = 1
    /\ Count("loadFile") = 2
    /\ built = Sides

\* C18: the run is marked failed at most once, and the setFailed call is the
\* last thing the run does: it is the last call of the trace, the run has
\* ended without an exception, no load is in flight, and no step follows.
C18_FailureTerminal ==
    [][ /\ Count("setFailed")' <= 1
        /\ \A i \in DOMAIN trace' :
             trace'[i].op = "setFailed"
                => /\ i = Len(trace')
                   /\ pc' = "done"
                   /\ thrown' = NoError
                   /\ \A side \in Sides : loads'[side].status # "pending"
        /\ ~Called("setFailed")
      ]_vars

\* C18 witness: a run marked failed on a Failure conclusion
C18_Witness ==
    /\ Count("setFailed") = 1
    /\ trace[Len(trace)] = SetFailed(<<SchemaProblem>>)
    /\ Called("diff")

OutputEvents(t) == SelectSeq(t, LAMBDA e : e.op = "setOutput")

\* C19: the override step leaves the engine's result and the `changes`
\* output as they were, and a run that reaches the conclusion step has
\* output the full count of the change list and summarised the full list,
\* whether or not the conclusion was downgraded.
C19_OverrideKeepsChanges ==
    [][ /\ pc = "override"
            => /\ action' = action
               /\ OutputEvents(trace') = OutputEvents(trace)
               /\ OutputEvents(trace) =
                    <<Call("setOutput", <<"changes", ToString(ChangeEntries)>>)>>
        /\ ConclusionReported'
            => /\ OutputEvents(trace') =
                    <<Call("setOutput", <<"changes", ToString(ChangeEntries')>>)>>
               /\ \E i \in DOMAIN trace' :
                    /\ trace'[i].op \in {"info", "error"}
                    /\ trace'[i].arg = <<"summary">> \o
                         (IF action'.hasChanges THEN action'.changes ELSE <<>>)
      ]_vars

\* C19 witness: a downgraded run that reported two changes
C19_Witness ==
    /\ ConclusionReported
    /\ action.conclusion = Failure /\ conclusion = Success
    /\ Len(action.changes) = 2
    /\ Logged(Call("setOutput", <<"changes", "2">>))
    /\ Logged(Info(<<"summary", "change", "change">>))

PointerMissing == "Failed to find 'schema' variable"

\* The validation calls made so far follow the one pull-request lookup
ValidationAfterLookup ==
    /\ (pc # "start" /\ Truthy(env.GITHUB_WORKSPACE))
         => Count("getAssociatedPullRequest") = 1
    /\ pc \in {"pointer", "rules"} => LookupCompleted
    /\ Truthy(env.GITHUB_WORKSPACE)
         => /\ Precedes("getAssociatedPullRequest", "resolveRule")
            /\ Precedes("getAssociatedPullRequest", "error")
            /\ Precedes("getAssociatedPullRequest", "setFailed")
    /\ (FailedWith(PointerMissing) \/ FailedWith(RulesNotRecognised))
         => /\ Count("getAssociatedPullRequest") = 1
            /\ LookupCompleted
            /\ Count("loadFile") = 0

\* C20: initially and after every step, with a workspace the pull-request
\* lookup is made exactly once, and it has completed before the schema
\* pointer and the rules are validated: a run that failed on a missing
\* pointer or on unrecognised rules has made one lookup, before any
\* validation call, and no file load.
C20_LookupBeforeValidation ==
    ValidationAfterLookup /\ [][ValidationAfterLookup']_vars

\* C20 witness: a run that failed on the missing pointer after one lookup
C20_Witness ==
    /\ FailedWith(PointerMissing)
    /\ Count("getAssociatedPullRequest") = 1
    /\ schemaPointer = <<>>

====
